---- MODULE Spec2Model ----
(***************************************************************************)
(* Model of the Keithley acquisition controller of                         *)
(* src/hardware/keithley.py: one caller thread issuing read_keithley_start,*)
(* close and get_keithley_data calls, and the background thread spawned by *)
(* the first start.                                                        *)
(* Every step is one source line (or one run of lines that touches no      *)
(* shared attribute), so that the interleavings of the two threads on      *)
(* is_run, is_receiving and the data arrays are the ones the interpreter   *)
(* can produce.                                                            *)
(***************************************************************************)
EXTENDS Integers, Sequences, FiniteSets, TLC

\* ---------------------------------------------------------------- bounds
MaxPoints == 2          \* n_data_points ranges over 0..MaxPoints
MaxReps == 2            \* repetitions ranges over 0..MaxReps
MaxCalls == 3           \* number of calls the caller makes

\* ------------------------------------------------- program constants
\* min_voltage = -0.01 and max_voltage = 0.7, in millivolts
min_voltage == -10
max_voltage == 700

\* readings the instrument may report for one averaged sample
MeanVoltages == {4}
MeanCurrents == {-1, -2}
StdCurrents == {1}

VARIABLES
    gpib_port,        \* "dummy" or "GPIB"
    n_data_points,
    repetitions,
    is_run,
    is_receiving,
    gpib_thread,      \* "None" or "Thread"
    sourcemeter,      \* "None" or "Keithley2400"
    source_voltage,   \* last excitation set on the instrument
    times, voltages, currents, currents_std, resistances, powers,
    tpc,              \* position of the background thread
    repetition, dp,   \* loop variables of the background thread
    cpc,              \* position of the caller
    hist,             \* outcomes of the caller's completed calls, in order
    events,           \* signals emitted so far, in order
    calls,            \* instrument operations invoked so far, in order
    spawned,          \* number of threads ever started
    clock             \* time.time()

config == <<n_data_points, repetitions>>
flags == <<is_run, is_receiving>>
buffer == <<times, voltages, currents, currents_std, resistances, powers>>
instr == <<sourcemeter, source_voltage, calls>>
tvars == <<tpc, repetition, dp>>
cvars == <<cpc, hist>>
vars == <<gpib_port, config, flags, gpib_thread, buffer, instr, tvars, cvars,
          events, spawned, clock>>

\* ---------------------------------------------------------------- helpers
Abs(x) == IF x < 0 THEN -x ELSE x

\* np.linspace(lo, hi, num=n)[i], on integers
Linspace(lo, hi, n, i) ==
    IF n = 1 THEN lo ELSE lo + (i * (hi - lo)) \div (n - 1)

voltages_set == [i \in 0..(n_data_points - 1) |->
                    Linspace(min_voltage, max_voltage, n_data_points, i)]

zeros_like == [i \in 0..(n_data_points - 1) |-> 0]

Sig(s, a, m) == [sig |-> s, arg |-> a, msg |-> m]
Log(m) == Sig("to_log", 0, m)

\* number of signals of one kind, of log messages and of instrument calls
NumEvents(s) == Cardinality({i \in 1..Len(events) : events[i].sig = s})
NumLogs(m) == Cardinality({i \in 1..Len(events) : events[i] = Log(m)})
NumCalls(c) == Cardinality({i \in 1..Len(calls) : calls[i] = c})

ThreadAlive == tpc \notin {"unstarted", "done", "crashed"}

\* ------------------------------------------------------------------ Init
Init ==
    /\ gpib_port \in {"dummy", "GPIB"}
    /\ n_data_points \in 0..MaxPoints
    /\ repetitions \in 0..MaxReps
    /\ is_run = TRUE
    /\ is_receiving = FALSE
    /\ gpib_thread = "None"
    /\ sourcemeter = "None"
    /\ source_voltage = 0
    /\ times = zeros_like
    /\ voltages = zeros_like
    /\ currents = zeros_like
    /\ currents_std = zeros_like
    /\ resistances = zeros_like
    /\ powers = zeros_like
    /\ tpc = "unstarted"
    /\ repetition = 0
    /\ dp = 0
    /\ cpc = "idle"
    /\ hist = << >>
    /\ events = << >>
    /\ calls = << >>
    /\ spawned = 0
    /\ clock = 1

\* ------------------------------------------------- read_keithley_start
Start63 ==
    /\ cpc = "idle"
    /\ Len(hist) < MaxCalls
    /\ is_run' = TRUE
    /\ cpc' = "s64"
    /\ UNCHANGED <<gpib_port, config, is_receiving, gpib_thread, buffer, instr,
                   tvars, hist, events, spawned, clock>>

Start64 ==
    /\ cpc = "s64"
    /\ is_receiving' = FALSE
    /\ cpc' = "s65"
    /\ UNCHANGED <<gpib_port, config, is_run, gpib_thread, buffer, instr,
                   tvars, hist, events, spawned, clock>>

\* Start65 without the test of line 65
Start65_AlwaysSpawn ==
    /\ cpc = "s65"
    /\ gpib_thread' = "Thread"
    /\ tpc' = "t83"
    /\ spawned' = spawned + 1
    /\ cpc' = "s69"
    /\ hist' = hist
    /\ UNCHANGED <<gpib_port, config, flags, buffer, instr, repetition, dp,
                   events, clock>>

Start65 ==
    /\ cpc = "s65"
    /\ IF gpib_thread = "None"
       THEN /\ gpib_thread' = "Thread"
            /\ tpc' = "t83"
            /\ spawned' = spawned + 1
            /\ cpc' = "s69"
            /\ hist' = hist
       ELSE /\ cpc' = "idle"
            /\ hist' = Append(hist, "start")
            /\ UNCHANGED <<gpib_thread, tpc, spawned>>
    /\ UNCHANGED <<gpib_port, config, flags, buffer, instr, repetition, dp,
                   events, clock>>

Start69 ==
    /\ cpc = "s69"
    /\ is_receiving
    /\ cpc' = "idle"
    /\ hist' = Append(hist, "start_spawned")
    /\ UNCHANGED <<gpib_port, config, flags, gpib_thread, buffer, instr,
                   tvars, events, spawned, clock>>

\* ------------------------------------------------------------------ close
Close114 ==
    /\ cpc = "idle"
    /\ Len(hist) < MaxCalls
    /\ is_run' = FALSE
    /\ cpc' = "c115"
    /\ UNCHANGED <<gpib_port, config, is_receiving, gpib_thread, buffer, instr,
                   tvars, hist, events, spawned, clock>>

\* Close115 without the join of line 116
Close115_NoJoin ==
    /\ cpc = "c115"
    /\ cpc' = "c117"
    /\ UNCHANGED <<gpib_port, config, flags, gpib_thread, buffer, instr,
                   tvars, hist, events, spawned, clock>>

Close115 ==
    /\ cpc = "c115"
    /\ cpc' = IF gpib_thread # "None" THEN "c116" ELSE "c117"
    /\ UNCHANGED <<gpib_port, config, flags, gpib_thread, buffer, instr,
                   tvars, hist, events, spawned, clock>>

Close116 ==
    /\ cpc = "c116"
    /\ ~ThreadAlive
    /\ cpc' = "c117"
    /\ UNCHANGED <<gpib_port, config, flags, gpib_thread, buffer, instr,
                   tvars, hist, events, spawned, clock>>

Close117 ==
    /\ cpc = "c117"
    /\ IF gpib_port # "dummy"
       THEN cpc' = "c118" /\ hist' = hist
       ELSE cpc' = "idle" /\ hist' = Append(hist, "close")
    /\ UNCHANGED <<gpib_port, config, flags, gpib_thread, buffer, instr,
                   tvars, events, spawned, clock>>

Close118 ==
    /\ cpc = "c118"
    /\ IF sourcemeter = "None"
       THEN \* AttributeError: 'NoneType' object has no attribute 'shutdown'
            /\ cpc' = "idle"
            /\ hist' = Append(hist, "close_raised")
            /\ calls' = calls
       ELSE /\ calls' = Append(calls, "shutdown")
            /\ \/ cpc' = "c119" /\ hist' = hist
               \/ cpc' = "idle" /\ hist' = Append(hist, "close_raised")
    /\ UNCHANGED <<gpib_port, config, flags, gpib_thread, buffer, sourcemeter,
                   source_voltage, tvars, events, spawned, clock>>

Close119 ==
    /\ cpc = "c119"
    /\ events' = Append(events, Log("Disconnected Keithley..."))
    /\ cpc' = "idle"
    /\ hist' = Append(hist, "close")
    /\ UNCHANGED <<gpib_port, config, flags, gpib_thread, buffer, instr,
                   tvars, spawned, clock>>

\* ------------------------------------------------------ get_keithley_data
\* lines 73-79: the table pd.DataFrame builds from the six arrays, a copy of
\* their contents at the moment of the call
DataFrame ==
    [time |-> times, voltage |-> voltages, current |-> currents,
     current_std |-> currents_std, resistance |-> resistances,
     power |-> powers]

\* lines 73-80: the call returns DataFrame and changes nothing
get_keithley_data ==
    /\ cpc = "idle"
    /\ Len(hist) < MaxCalls
    /\ hist' = Append(hist, "data")
    /\ UNCHANGED <<gpib_port, config, flags, gpib_thread, buffer, instr,
                   tvars, cpc, events, spawned, clock>>

CallerNext ==
    \/ Start63 \/ Start64 \/ Start65 \/ Start69
    \/ Close114 \/ Close115 \/ Close116 \/ Close117 \/ Close118 \/ Close119
    \/ get_keithley_data

\* ---------------------------------------------------- background_thread
\* line 83: time.sleep(1.0), then the call of config_keithley
Thread83 ==
    /\ tpc = "t83"
    /\ tpc' = "t43"
    /\ UNCHANGED <<gpib_port, config, flags, gpib_thread, buffer, instr,
                   repetition, dp, cvars, events, spawned, clock>>

\* Config43 without the early return of lines 44-45
Config43_NoSentinelReturn ==
    /\ tpc = "t43"
    /\ events' = Append(events, Log("Trying to connect"))
    /\ tpc' = "t47"
    /\ UNCHANGED <<gpib_port, config, flags, gpib_thread, buffer, instr,
                   repetition, dp, cvars, spawned, clock>>

\* config_keithley, lines 43-45
Config43 ==
    /\ tpc = "t43"
    /\ events' = Append(events, Log("Trying to connect"))
    /\ tpc' = IF gpib_port = "dummy" THEN "t85" ELSE "t47"
    /\ UNCHANGED <<gpib_port, config, flags, gpib_thread, buffer, instr,
                   repetition, dp, cvars, spawned, clock>>

\* Config47 without the fallback assignment of line 51
Config47_NoFallback ==
    /\ tpc = "t47"
    /\ calls' = Append(calls, "connect")
    /\ \/ /\ sourcemeter' = "Keithley2400"
          /\ events' = Append(events, Log("Connected"))
          /\ tpc' = "t53"
       \/ /\ events' = Append(events, Log("Failed to connect"))
          /\ tpc' = "t85"
          /\ sourcemeter' = sourcemeter
    /\ UNCHANGED <<gpib_port, config, flags, gpib_thread, buffer,
                   source_voltage, repetition, dp, cvars, spawned, clock>>

\* config_keithley, lines 46-52: the connection attempt returns or raises
\* VisaIOError
Config47 ==
    /\ tpc = "t47"
    /\ calls' = Append(calls, "connect")
    /\ \/ /\ sourcemeter' = "Keithley2400"
          /\ events' = Append(events, Log("Connected"))
          /\ tpc' = "t53"
          /\ gpib_port' = gpib_port
       \/ /\ events' = Append(events, Log("Failed to connect"))
          /\ gpib_port' = "dummy"
          /\ tpc' = "t85"
          /\ sourcemeter' = sourcemeter
    /\ UNCHANGED <<config, flags, gpib_thread, buffer, source_voltage,
                   repetition, dp, cvars, spawned, clock>>

\* config_keithley, lines 53-60: reset .. enable_source, each of which may
\* raise in the thread
Config53 ==
    /\ tpc = "t53"
    /\ calls' = Append(calls, "configure")
    /\ tpc' \in {"t85", "crashed"}
    /\ UNCHANGED <<gpib_port, config, flags, gpib_thread, buffer, sourcemeter,
                   source_voltage, repetition, dp, cvars, events, spawned,
                   clock>>

\* line 85: while self.is_run
Thread85 ==
    /\ tpc = "t85"
    /\ IF is_run
       THEN tpc' = "t86" /\ repetition' = 0
       ELSE tpc' = "done" /\ repetition' = repetition
    /\ UNCHANGED <<gpib_port, config, flags, gpib_thread, buffer, instr, dp,
                   cvars, events, spawned, clock>>

\* line 86: for repetition in range(self.repetitions)
Thread86 ==
    /\ tpc = "t86"
    /\ tpc' = IF repetition < repetitions THEN "t87" ELSE "t111"
    /\ UNCHANGED <<gpib_port, config, flags, gpib_thread, buffer, instr,
                   repetition, dp, cvars, events, spawned, clock>>

\* Thread87 recording a timestamp per point in the simulation branch
Thread87_SimWrites ==
    /\ tpc = "t87"
    /\ IF gpib_port = "dummy"
       THEN /\ is_receiving' = TRUE /\ tpc' = "t105" /\ dp' = dp
            /\ times' = [i \in 0..(n_data_points - 1) |-> clock]
       ELSE /\ is_receiving' = is_receiving /\ tpc' = "t90" /\ dp' = 0
            /\ times' = times
    /\ UNCHANGED <<gpib_port, config, is_run, gpib_thread, voltages, currents,
                   currents_std, resistances, powers, instr, repetition,
                   cvars, events, spawned, clock>>

\* Thread87 marking readiness before the first data point is measured
Thread87_ReadyEarly ==
    /\ tpc = "t87"
    /\ is_receiving' = TRUE
    /\ IF gpib_port = "dummy"
       THEN tpc' = "t105" /\ dp' = dp
       ELSE tpc' = "t90" /\ dp' = 0
    /\ UNCHANGED <<gpib_port, config, is_run, gpib_thread, buffer, instr,
                   repetition, cvars, events, spawned, clock>>

\* lines 87-90: the simulation branch marks readiness, the real branch
\* enters the loop over the data points
Thread87 ==
    /\ tpc = "t87"
    /\ IF gpib_port = "dummy"
       THEN is_receiving' = TRUE /\ tpc' = "t105" /\ dp' = dp
       ELSE is_receiving' = is_receiving /\ tpc' = "t90" /\ dp' = 0
    /\ UNCHANGED <<gpib_port, config, is_run, gpib_thread, buffer, instr,
                   repetition, cvars, events, spawned, clock>>

\* line 90: for dp in range(self.n_data_points)
Thread90 ==
    /\ tpc = "t90"
    /\ tpc' = IF dp < n_data_points THEN "t91" ELSE "t104"
    /\ UNCHANGED <<gpib_port, config, flags, gpib_thread, buffer, instr,
                   repetition, dp, cvars, events, spawned, clock>>

\* lines 91-92: arm the next buffer slot and set the source voltage
Thread91 ==
    /\ tpc = "t91"
    /\ IF sourcemeter = "None"
       THEN tpc' = "crashed" /\ UNCHANGED <<calls, source_voltage>>
       ELSE /\ calls' = Append(calls, "source_voltage")
            /\ \/ tpc' = "t94" /\ source_voltage' = voltages_set[dp]
               \/ tpc' = "crashed" /\ source_voltage' = source_voltage
    /\ UNCHANGED <<gpib_port, config, flags, gpib_thread, buffer, sourcemeter,
                   repetition, dp, cvars, events, spawned, clock>>

\* lines 93-95: wait self.delay, start_buffer, wait_for_buffer
Thread94 ==
    /\ tpc = "t94"
    /\ calls' = Append(calls, "measure")
    /\ tpc' \in {"t96", "crashed"}
    /\ UNCHANGED <<gpib_port, config, flags, gpib_thread, buffer, sourcemeter,
                   source_voltage, repetition, dp, cvars, events, spawned,
                   clock>>

\* line 96
Thread96 ==
    /\ tpc = "t96"
    /\ times' = [times EXCEPT ![dp] = clock]
    /\ clock' = clock + 1
    /\ tpc' = "t97"
    /\ UNCHANGED <<gpib_port, config, flags, gpib_thread, voltages, currents,
                   currents_std, resistances, powers, instr, repetition, dp,
                   cvars, events, spawned>>

\* line 97
Thread97 ==
    /\ tpc = "t97"
    /\ calls' = Append(calls, "mean_voltage")
    /\ \/ \E v \in MeanVoltages :
             /\ voltages' = [voltages EXCEPT ![dp] = v]
             /\ tpc' = "t98"
       \/ tpc' = "crashed" /\ voltages' = voltages
    /\ UNCHANGED <<gpib_port, config, flags, gpib_thread, times, currents,
                   currents_std, resistances, powers, sourcemeter,
                   source_voltage, repetition, dp, cvars, events, spawned,
                   clock>>

\* line 98
Thread98 ==
    /\ tpc = "t98"
    /\ calls' = Append(calls, "mean_current")
    /\ \/ \E c \in MeanCurrents :
             /\ currents' = [currents EXCEPT ![dp] = -c]
             /\ tpc' = "t99"
       \/ tpc' = "crashed" /\ currents' = currents
    /\ UNCHANGED <<gpib_port, config, flags, gpib_thread, times, voltages,
                   currents_std, resistances, powers, sourcemeter,
                   source_voltage, repetition, dp, cvars, events, spawned,
                   clock>>

\* line 99
Thread99 ==
    /\ tpc = "t99"
    /\ calls' = Append(calls, "std_current")
    /\ \/ \E sd \in StdCurrents :
             /\ currents_std' = [currents_std EXCEPT ![dp] = sd]
             /\ tpc' = "t100"
       \/ tpc' = "crashed" /\ currents_std' = currents_std
    /\ UNCHANGED <<gpib_port, config, flags, gpib_thread, times, voltages,
                   currents, resistances, powers, sourcemeter, source_voltage,
                   repetition, dp, cvars, events, spawned, clock>>

\* line 100
Thread100 ==
    /\ tpc = "t100"
    /\ resistances' = [resistances EXCEPT
                          ![dp] = Abs(voltages[dp] \div currents[dp])]
    /\ tpc' = "t101"
    /\ UNCHANGED <<gpib_port, config, flags, gpib_thread, times, voltages,
                   currents, currents_std, powers, instr, repetition, dp,
                   cvars, events, spawned, clock>>

\* Thread101 without the write of the power column
Thread101_NoWrite ==
    /\ tpc = "t101"
    /\ tpc' = "t102"
    /\ UNCHANGED <<gpib_port, config, flags, gpib_thread, buffer, instr,
                   repetition, dp, cvars, events, spawned, clock>>

\* line 101
Thread101 ==
    /\ tpc = "t101"
    /\ powers' = [powers EXCEPT ![dp] = Abs(voltages[dp] * currents[dp])]
    /\ tpc' = "t102"
    /\ UNCHANGED <<gpib_port, config, flags, gpib_thread, times, voltages,
                   currents, currents_std, resistances, instr, repetition, dp,
                   cvars, events, spawned, clock>>

\* line 102
Thread102 ==
    /\ tpc = "t102"
    /\ events' = Append(events, Sig("update", dp, ""))
    /\ tpc' = "t103"
    /\ UNCHANGED <<gpib_port, config, flags, gpib_thread, buffer, instr,
                   repetition, dp, cvars, spawned, clock>>

\* line 103, and the step of the loop over the data points
Thread103 ==
    /\ tpc = "t103"
    /\ is_receiving' = TRUE
    /\ dp' = dp + 1
    /\ tpc' = "t90"
    /\ UNCHANGED <<gpib_port, config, is_run, gpib_thread, buffer, instr,
                   repetition, cvars, events, spawned, clock>>

\* line 104
Thread104 ==
    /\ tpc = "t104"
    /\ IF sourcemeter = "None"
       THEN tpc' = "crashed" /\ UNCHANGED <<calls, source_voltage>>
       ELSE /\ calls' = Append(calls, "source_voltage")
            /\ \/ tpc' = "t105" /\ source_voltage' = 0
               \/ tpc' = "crashed" /\ source_voltage' = source_voltage
    /\ UNCHANGED <<gpib_port, config, flags, gpib_thread, buffer, sourcemeter,
                   repetition, dp, cvars, events, spawned, clock>>

\* Thread105 emitting the repetition number counted from 1
Thread105_FromOne ==
    /\ tpc = "t105"
    /\ events' = Append(events, Sig("save", repetition + 1, ""))
    /\ tpc' = "t106"
    /\ UNCHANGED <<gpib_port, config, flags, gpib_thread, buffer, instr,
                   repetition, dp, cvars, spawned, clock>>

\* line 105
Thread105 ==
    /\ tpc = "t105"
    /\ events' = Append(events, Sig("save", repetition, ""))
    /\ tpc' = "t106"
    /\ UNCHANGED <<gpib_port, config, flags, gpib_thread, buffer, instr,
                   repetition, dp, cvars, spawned, clock>>

\* line 106
Thread106 ==
    /\ tpc = "t106"
    /\ events' = Append(events, Sig("to_log", repetition + 1, "Finished curve"))
    /\ tpc' = "t107"
    /\ UNCHANGED <<gpib_port, config, flags, gpib_thread, buffer, instr,
                   repetition, dp, cvars, spawned, clock>>

\* lines 107-110, and the step of the loop over the repetitions
Thread107 ==
    /\ tpc = "t107"
    /\ IF repetition < repetitions - 1
       THEN events' = events
       ELSE events' = Append(events, Log("Finished IV scan."))
    /\ repetition' = repetition + 1
    /\ tpc' = "t86"
    /\ UNCHANGED <<gpib_port, config, flags, gpib_thread, buffer, instr, dp,
                   cvars, spawned, clock>>

\* line 111
Thread111 ==
    /\ tpc = "t111"
    /\ is_run' = FALSE
    /\ tpc' = "t85"
    /\ UNCHANGED <<gpib_port, config, is_receiving, gpib_thread, buffer, instr,
                   repetition, dp, cvars, events, spawned, clock>>

ThreadNext ==
    \/ Thread83 \/ Config43 \/ Config47 \/ Config53
    \/ Thread85 \/ Thread86 \/ Thread87 \/ Thread90 \/ Thread91 \/ Thread94
    \/ Thread96 \/ Thread97 \/ Thread98 \/ Thread99 \/ Thread100 \/ Thread101
    \/ Thread102 \/ Thread103 \/ Thread104 \/ Thread105 \/ Thread106
    \/ Thread107 \/ Thread111

Next == CallerNext \/ ThreadNext

Spec == Init /\ [][Next]_vars

\* the interpreter schedules both threads: a thread that can take a step
\* eventually takes it; the caller is free never to make another call
CallerContinue ==
    \/ Start64 \/ Start65 \/ Start69
    \/ Close115 \/ Close116 \/ Close117 \/ Close118 \/ Close119

FairSpec == Spec /\ WF_vars(ThreadNext) /\ WF_vars(CallerContinue)

TypeOK ==
    /\ gpib_port \in {"dummy", "GPIB"}
    /\ is_run \in BOOLEAN /\ is_receiving \in BOOLEAN
    /\ gpib_thread \in {"None", "Thread"}
    /\ sourcemeter \in {"None", "Keithley2400"}
    /\ spawned \in 0..MaxCalls
    /\ dp \in 0..n_data_points
    /\ repetition \in 0..repetitions

\* ------------------------------------------------------------ properties
StartPcs == {"s64", "s65", "s69"}
ClosePcs == {"c115", "c116", "c117", "c118", "c119"}

Last(seq) == seq[Len(seq)]
Has(seq, x) == \E i \in 1..Len(seq) : seq[i] = x

\* a close call has returned normally
StopReturned == Has(hist, "close")
\* a close call has been made (line 114 has run)
StopRequested == cpc \in ClosePcs \/ Has(hist, "close") \/ Has(hist, "close_raised")
\* an instrument call has raised in the thread
ThreadCrashed == tpc = "crashed"
ValidConfig == n_data_points >= 1 /\ repetitions >= 1

\* C1: whenever a close call returns (normally or by raising), the
\* background thread is not alive.
C1_StopJoins ==
    [][(cpc \in ClosePcs /\ cpc' = "idle") => ~ThreadAlive']_vars

\* a close made after a start returned, with the sweep's events emitted and
\* the thread exited
C1_Witness ==
    /\ cpc = "idle"
    /\ hist = <<"start_spawned", "close">>
    /\ gpib_port = "GPIB"
    /\ tpc = "done"
    /\ NumEvents("update") = n_data_points * repetitions

\* C2: over any sequence of start and close calls at most one background
\* thread is ever spawned (so at most one is alive, and a start made while
\* a thread exists spawns none).
C2_AtMostOneTask ==
    /\ spawned <= 1
    /\ (gpib_thread = "None") <=> (spawned = 0)
    /\ ThreadAlive => spawned = 1

\* a second start call has returned and still one thread was spawned
C2_Witness ==
    /\ Len(hist) >= 2
    /\ hist[1] = "start_spawned"
    /\ hist[2] = "start"
    /\ spawned = 1

\* C3: with no stop request and no failing instrument call, a second start
\* causes no additional sweep: at most `repetitions` repetition-complete
\* events are emitted over the controller's life.
C3_StartIdempotent ==
    (~StopRequested /\ ~ThreadCrashed) => NumEvents("save") <= repetitions

\* C4: once a stop is requested (the caller is in close, is_run is False)
\* the thread starts no new data point and no new repetition.
C4_StopHonored ==
    [][(cpc \in {"c115", "c116"} /\ ~is_run)
         => /\ ~(tpc = "t90" /\ tpc' = "t91")
            /\ ~(tpc = "t86" /\ tpc' = "t87")]_vars

\* C5: once a close call has returned, no later start spawns a thread.
C5_StoppedTerminal ==
    [][StopReturned => spawned' = spawned]_vars

\* C6: over any sequence of close calls the instrument's shutdown is invoked
\* at most once and the disconnect log is emitted at most once.
C6_StopIdempotent ==
    /\ NumCalls("shutdown") <= 1
    /\ NumLogs("Disconnected Keithley...") <= 1

\* C7: in simulation mode no instrument operation is invoked: with the
\* sentinel port no call at all, after a failed connection attempt nothing
\* but that attempt; and no disconnect log is emitted.
C7_SimulationNoInstrument ==
    gpib_port = "dummy" =>
        /\ calls \in {<< >>, <<"connect">>}
        /\ (calls # << >> => Has(events, Log("Failed to connect")))
        /\ sourcemeter = "None"
        /\ NumLogs("Disconnected Keithley...") = 0

\* a simulated run after a failed connection attempt, swept and closed
C7_Witness ==
    /\ gpib_port = "dummy"
    /\ calls = <<"connect">>
    /\ tpc = "done"
    /\ NumEvents("save") >= 1
    /\ Len(hist) >= 2 /\ Last(hist) = "close"

\* C8: when the start call that spawned the thread returns, the thread has
\* signalled readiness, and in real mode row 0 of the buffer is written and
\* update(0) is emitted.
C8_StartRendezvous ==
    [][(cpc = "s69" /\ cpc' = "idle") =>
          /\ is_receiving'
          /\ gpib_port' # "dummy" =>
                /\ n_data_points >= 1
                /\ times'[0] # 0 /\ voltages'[0] # 0 /\ currents'[0] # 0
                /\ currents_std'[0] # 0 /\ resistances'[0] # 0
                /\ powers'[0] # 0
                /\ Has(events', Sig("update", 0, ""))]_vars

\* the spawning start has just returned in real mode
C8_Witness ==
    /\ hist = <<"start_spawned">>
    /\ cpc = "idle"
    /\ gpib_port = "GPIB"

\* C9: with a valid configuration every start call eventually returns,
\* whatever the instrument does.
C9_StartReturns ==
    (cpc \in StartPcs /\ ValidConfig) ~> (cpc = "idle")

\* C10: with an invalid configuration start spawns no thread and no event
\* is emitted.
C10_InvalidConfigRejected ==
    ~ValidConfig => (spawned = 0 /\ events = << >>)

\* ------------------------------------------------- properties, continued
\* log messages the code emits in red (line 50), its only error severity
ErrorMessages == {"Failed to connect"}
NumErrorLogs ==
    Cardinality({i \in 1..Len(events) :
                    events[i].sig = "to_log" /\ events[i].msg \in ErrorMessages})

\* position in events of the last repetition-complete signal, 0 if none
LastSaveIdx ==
    LET S == {i \in 1..Len(events) : events[i].sig = "save"}
    IN  IF S = {} THEN 0 ELSE CHOOSE i \in S : \A j \in S : j <= i

\* point indices of the progress signals emitted since the last
\* repetition-complete signal, in order
CurrentUpdates ==
    LET rest == SubSeq(events, LastSaveIdx + 1, Len(events))
        ups == SelectSeq(rest, LAMBDA e : e.sig = "update")
    IN  [i \in 1..Len(ups) |-> ups[i].arg]

\* an instrument call of the sweep (lines 91-104) has raised in the thread
CrashedInSweep == tpc = "crashed" /\ NumCalls("source_voltage") >= 1

\* C11: when an in-sweep instrument call fails at point k, progress events
\* of that repetition are those of 0..k-1, exactly one error-severity log
\* is emitted and the failure is not left unreported.
C11_FatalCleanly ==
    CrashedInSweep =>
        /\ CurrentUpdates = [i \in 1..dp |-> i - 1]
        /\ NumErrorLogs = 1

\* C12: after a failed connection attempt the controller is in simulation
\* mode in every later state: the thread has not raised, exactly one
\* failure log is emitted, no handle exists, no instrument operation but
\* the attempt is invoked and no disconnect log is emitted.
C12_FallbackToSimulation ==
    Has(events, Log("Failed to connect")) =>
        /\ gpib_port = "dummy"
        /\ tpc # "crashed"
        /\ NumLogs("Failed to connect") = 1
        /\ sourcemeter = "None"
        /\ calls = <<"connect">>
        /\ NumLogs("Disconnected Keithley...") = 0
        /\ (tpc = "done" /\ ~StopRequested
               => NumEvents("save") >= repetitions /\ NumEvents("update") = 0)

\* a failed attempt, the simulated sweep finished, a start and a close made
C12_Witness ==
    /\ Has(events, Log("Failed to connect"))
    /\ tpc = "done"
    /\ NumEvents("save") >= 1
    /\ hist = <<"start_spawned", "close">>

\* positions in events of the repetition-complete signals
SaveIdxs == {i \in 1..Len(events) : events[i].sig = "save"}

\* point indices of the progress signals emitted between positions lo and
\* hi of events, in order
UpdatesBetween(lo, hi) ==
    LET ups == SelectSeq(SubSeq(events, lo, hi), LAMBDA e : e.sig = "update")
    IN  [i \in 1..Len(ups) |-> ups[i].arg]

\* the repetition before the signal at position s starts after the
\* previous repetition-complete signal
PrevSaveIdx(s) ==
    LET S == {i \in SaveIdxs : i < s}
    IN  IF S = {} THEN 0 ELSE CHOOSE i \in S : \A j \in S : j <= i

\* the progress signals of one full repetition
FullRepetition ==
    IF gpib_port = "dummy" THEN << >>
    ELSE [i \in 1..n_data_points |-> i - 1]

\* progress signals are in order within every repetition and precede its
\* repetition-complete signal
ProgressInOrder ==
    /\ \A s \in SaveIdxs : UpdatesBetween(PrevSaveIdx(s) + 1, s) = FullRepetition
    /\ \E k \in 0..n_data_points :
          CurrentUpdates = [i \in 1..k |-> i - 1]

\* C13: within a repetition the progress events carry 0, 1, .., N-1 in
\* order and precede the repetition-complete event, and the
\* repetition-complete events carry strictly increasing repetition indices.
C13_EventOrder ==
    /\ ProgressInOrder
    /\ \A i, j \in SaveIdxs : i < j => events[i].arg < events[j].arg

\* row i of the buffer holds one measurement taken at time t: the six
\* columns are written, the derived ones from the row's own readings
RowWritten(i, t) ==
    /\ times[i] = t
    /\ voltages[i] \in MeanVoltages
    /\ -currents[i] \in MeanCurrents
    /\ currents_std[i] \in StdCurrents
    /\ resistances[i] = Abs(voltages[i] \div currents[i])
    /\ powers[i] = Abs(voltages[i] * currents[i])

\* C14: whenever the progress event of point i is emitted, the six columns
\* of row i already hold that measurement (its timestamp is the latest
\* one taken, the derived columns follow from the row's readings).
C14_PublishAfterWrite ==
    [][\A i \in 0..(n_data_points - 1) :
          events' = Append(events, Sig("update", i, ""))
              => RowWritten(i, clock - 1)]_vars

\* the progress event of the last point of a second repetition has just
\* been emitted
C14_Witness ==
    /\ tpc = "t103"
    /\ repetition = 1
    /\ dp = n_data_points - 1
    /\ Len(events) > 0 /\ Last(events) = Sig("update", dp, "")

\* repetition indices carried by the last n repetition-complete signals
LastSaves(n) ==
    LET saves == SelectSeq(events, LAMBDA e : e.sig = "save")
    IN  [i \in 1..n |-> saves[Len(saves) - n + i].arg]

\* the thread has just completed a pass of the for loop of line 86
PassComplete == tpc = "t111"

\* C15 as stated: a complete run of R repetitions has emitted
\* repetition-complete events carrying 1, 2, .., R in that order.
C15_SaveCountsFromOne ==
    PassComplete => LastSaves(repetitions) = [i \in 1..repetitions |-> i]

\* C15, amended: every complete pass of R repetitions emits
\* repetition-complete events carrying 0, 1, .., R-1 in that order (the
\* number counted from 1 is the one of the 'Finished curve' log), and no
\* error log is emitted by the sweep.
C15_SaveCountsFromZero ==
    /\ PassComplete =>
          /\ NumEvents("save") >= repetitions
          /\ LastSaves(repetitions) = [i \in 1..repetitions |-> i - 1]
    /\ \A i \in SaveIdxs :
          /\ i < Len(events) => events[i + 1] =
                Sig("to_log", events[i].arg + 1, "Finished curve")
          /\ \A j \in i..Len(events) :
                ~(events[j].sig = "to_log" /\ events[j].msg \in ErrorMessages)

\* a simulated run of two repetitions has completed
C15_Witness ==
    /\ PassComplete
    /\ gpib_port = "dummy"
    /\ repetitions = 2
    /\ NumEvents("save") = 2

Rows == 0..(n_data_points - 1)

\* C16: in simulation mode the buffer is never written: every column of the
\* buffer, and so of any table get_keithley_data returns, is zero at every
\* index.
C16_SimulationBufferZero ==
    gpib_port = "dummy" =>
        /\ buffer = <<zeros_like, zeros_like, zeros_like, zeros_like,
                      zeros_like, zeros_like>>
        /\ \A i \in Rows : DataFrame.current[i] = 0

\* a simulated run has completed its repetitions and a table was returned
C16_Witness ==
    /\ gpib_port = "dummy"
    /\ tpc = "done"
    /\ n_data_points >= 1
    /\ NumEvents("save") >= 2
    /\ Has(hist, "data")

\* row i of a table has been recorded: every column holds a written value
Recorded(t, i) ==
    /\ t.time[i] # 0 /\ t.voltage[i] # 0 /\ t.current[i] # 0
    /\ t.current_std[i] # 0 /\ t.resistance[i] # 0 /\ t.power[i] # 0

\* the derived columns of row i follow from the row's own readings
RowConsistent(t, i) ==
    /\ t.resistance[i] = Abs(t.voltage[i] \div t.current[i])
    /\ t.power[i] = Abs(t.voltage[i] * t.current[i])

\* C17: in every table get_keithley_data returns during a real run, every
\* recorded row is consistent: its resistance and power are derived from
\* the voltage and current of the same row.
C17_SnapshotConsistent ==
    [][hist' = Append(hist, "data")
          => \A i \in Rows : Recorded(DataFrame, i)
                                => RowConsistent(DataFrame, i)]_vars

\* C18: in real mode the instrument is de-energized whenever a
\* repetition-complete event has just been emitted (the thread is at line
\* 106) and whenever the thread has exited: the last source voltage set is 0.
C18_DeEnergized ==
    (gpib_port = "GPIB" /\ tpc \in {"t106", "done", "crashed"})
        => source_voltage = 0

\* position in events of the first 'Finished IV scan.' log, 0 if none
FinishedIdx ==
    LET F == {i \in 1..Len(events) : events[i] = Log("Finished IV scan.")}
    IN  IF F = {} THEN 0 ELSE CHOOSE i \in F : \A j \in F : i <= j

\* C19: with a valid configuration, no stop request and every instrument
\* call returning, the thread that has exited completed exactly
\* `repetitions` repetitions and emitted the 'Finished IV scan.' log exactly
\* once, after the last repetition-complete event.
C19_SweepTerminates ==
    (tpc = "done" /\ ValidConfig /\ ~StopRequested) =>
        /\ NumEvents("save") = repetitions
        /\ NumLogs("Finished IV scan.") = 1
        /\ \A i \in SaveIdxs : i < FinishedIdx

\* C20: close never invokes shutdown on an absent handle: whenever it
\* reaches the shutdown call of line 118 the instrument was opened.
C20_ShutdownOnOpenHandle ==
    cpc = "c118" => sourcemeter # "None"

====
